---- MODULE Spec2Model ----
(***************************************************************************)
(* A model of the weighted tree of src/app.py: JsonTreeItem objects on a   *)
(* heap, the JsonTreeModel operations that load a document into the tree   *)
(* and edit it, and the weight arithmetic (Python floats, "%.2f" strings)  *)
(* those operations perform.                                               *)
(***************************************************************************)
EXTENDS Integers, Sequences, FiniteSets, TLC

(***************************************************************************)
(* Bounds of the model.                                                    *)
(***************************************************************************)
\* the largest number of layers of the one-factor documents of DocList
MaxLayers == 2
\* the largest number of layers of the one-factor documents of SplitDocList
MaxSplit == 6
\* add_dimension, add_factor and add_layer are explored while the tree holds
\* fewer items than this (the root among them)
MaxItems == 4
\* the number of setData calls explored after a load
MaxEdits == 1
\* the number of send_query calls explored on one downloader
MaxQueries == 2
\* the number of leaf-processing chains (Prepare clicks whose timers are
\* pending) explored at once
MaxChains == 2

(***************************************************************************)
(* Python floats.  A float is an IEEE-754 double; the values the program   *)
(* computes are 1/num_layers and sums of it, all in [0, 4) and multiples   *)
(* of 2^-FracBits, so a float is held as the bits of a fixed-point number  *)
(* (most significant first, IntBits before the point, FracBits after) and  *)
(* every operation rounds its exact result to MantBits significant bits,   *)
(* ties to even, as the hardware does.                                     *)
(***************************************************************************)
IntBits == 2
FracBits == 60
MantBits == 53
Width == IntBits + FracBits

\* the bit string f[1], ..., f[n] as a sequence
Bits(f) == f \o <<>>

ZeroBits(w) == Bits([i \in 1..w |-> 0])

\* the float 1.0 (and the int 1 that Python converts to it in 1 / num_layers)
FOne == Bits([i \in 1..Width |-> IF i = IntBits THEN 1 ELSE 0])

\* the float 0.0
FZero == ZeroBits(Width)

\* the carry into bit i of a + b: some lower bit generates a carry and every
\* bit between propagates it
CarryIn(a, b, i) ==
    IF \E j \in (i + 1)..Len(a) :
          /\ a[j] + b[j] = 2
          /\ \A k \in (i + 1)..(j - 1) : a[k] + b[k] = 1
    THEN 1 ELSE 0

\* the exact sum of two bit strings of the same length
AddBits(a, b) == Bits([i \in 1..Len(a) |-> (a[i] + b[i] + CarryIn(a, b, i)) % 2])

ShiftLeft(a, k) ==
    Bits([i \in 1..Len(a) |-> IF i + k <= Len(a) THEN a[i + k] ELSE 0])

\* round an exact value (its bits, and whether a non-zero part lies below
\* them) to a double: MantBits significant bits, round half to even
RoundDouble(b, sticky) ==
    IF \A i \in 1..Len(b) : b[i] = 0 THEN b
    ELSE
      LET lead == CHOOSE i \in 1..Len(b) : b[i] = 1 /\ \A j \in 1..(i - 1) : b[j] = 0
          last == lead + MantBits - 1
      IN  IF last >= Len(b) THEN b
          ELSE
            LET guard == b[last + 1]
                rest  == sticky \/ \E j \in (last + 2)..Len(b) : b[j] = 1
                trunc == Bits([i \in 1..Len(b) |-> IF i <= last THEN b[i] ELSE 0])
                ulp   == Bits([i \in 1..Len(b) |-> IF i = last THEN 1 ELSE 0])
            IN  IF guard = 1 /\ (rest \/ b[last] = 1)
                THEN AddBits(trunc, ulp)
                ELSE trunc

\* 2^k modulo n for k <= FracBits, from the two halves of the exponent
Pow2Mod(k, n) == ((2 ^ (k \div 2) % n) * (2 ^ (k - k \div 2) % n)) % n

\* Python's 1 / n for a positive int n: the bits of the exact quotient (bit
\* IntBits + k is the k-th binary place, floor(2^k / n) modulo 2), rounded
FRecip(n) ==
    RoundDouble(
        Bits([i \in 1..Width |->
                 IF i < IntBits THEN 0
                 ELSE IF i = IntBits THEN 1 \div n
                 ELSE (2 * Pow2Mod(i - IntBits - 1, n)) \div n]),
        Pow2Mod(FracBits, n) # 0)

\* Python's a + b for two floats
FAdd(a, b) == RoundDouble(AddBits(a, b), FALSE)

\* the integer the first k bits of a spell
BitsToInt(a, k) ==
    LET upto[j \in 0..k] == IF j = 0 THEN 0 ELSE 2 * upto[j - 1] + a[j]
    IN  upto[k]

\* the number of hundredths "%.2f" prints for the float x: x * 100 computed
\* exactly and rounded to an integer, half to even
Hundredths(x) ==
    LET wide  == ZeroBits(7) \o x
        x100  == AddBits(AddBits(ShiftLeft(wide, 6), ShiftLeft(wide, 5)),
                         ShiftLeft(wide, 2))
        nint  == IntBits + 7
        whole == BitsToInt(x100, nint)
        guard == x100[nint + 1]
        rest  == \E j \in (nint + 2)..Len(x100) : x100[j] = 1
    IN  IF guard = 1 /\ (rest \/ whole % 2 = 1) THEN whole + 1 ELSE whole

(***************************************************************************)
(* Python str.  A str is the sequence of its characters, each a one-       *)
(* character string, so that title(), lower() and float() are computed     *)
(* from the characters.                                                    *)
(***************************************************************************)
LowerCase == <<"a", "b", "c", "d", "e", "f", "g", "h", "i", "j", "k", "l", "m",
               "n", "o", "p", "q", "r", "s", "t", "u", "v", "w", "x", "y", "z">>
UpperCase == <<"A", "B", "C", "D", "E", "F", "G", "H", "I", "J", "K", "L", "M",
               "N", "O", "P", "Q", "R", "S", "T", "U", "V", "W", "X", "Y", "Z">>

IsLower(c) == \E i \in 1..Len(LowerCase) : LowerCase[i] = c
IsUpper(c) == \E i \in 1..Len(UpperCase) : UpperCase[i] = c
IsCased(c) == IsLower(c) \/ IsUpper(c)

ToUpper(c) ==
    IF IsLower(c) THEN UpperCase[CHOOSE i \in 1..Len(LowerCase) : LowerCase[i] = c] ELSE c
ToLower(c) ==
    IF IsUpper(c) THEN LowerCase[CHOOSE i \in 1..Len(UpperCase) : UpperCase[i] = c] ELSE c

\* str.title(): a cased character is upper-cased when it starts a word (it
\* follows no cased character) and lower-cased otherwise
StrTitle(s) ==
    [i \in 1..Len(s) |->
        IF i = 1 \/ ~IsCased(s[i - 1]) THEN ToUpper(s[i]) ELSE ToLower(s[i])] \o <<>>

\* str.lower()
StrLower(s) == [i \in 1..Len(s) |-> ToLower(s[i])] \o <<>>

\* the text of a natural number below 100, one character per digit
Digits(n) ==
    IF n < 10 THEN <<ToString(n)>> ELSE <<ToString(n \div 10), ToString(n % 10)>>

\* the text of h hundredths with two decimals: 33 is "0.33", 100 is "1.00"
TwoDecimals(h) ==
    Digits(h \div 100) \o <<".">> \o <<ToString((h \div 10) % 10), ToString(h % 10)>>

\* Python's f"{x:.2f}" for a float x
Format2(x) == TwoDecimals(Hundredths(x))

(***************************************************************************)
(* String literals of the program.                                         *)
(***************************************************************************)
EmptyStr == <<>>
\* the status mark every item is created with (a red circle character)
RedCircle == <<"(red circle)">>
HeaderName == <<"G", "E", "E", "S", "T", "2">>
HeaderStatus == <<"S", "t", "a", "t", "u", "s">>
HeaderWeight == <<"W", "e", "i", "g", "h", "t">>
NewDimensionName == <<"N", "e", "w", " ", "D", "i", "m", "e", "n", "s", "i", "o", "n">>
NewFactorName == <<"N", "e", "w", " ", "F", "a", "c", "t", "o", "r">>
NewLayerName == <<"N", "e", "w", " ", "L", "a", "y", "e", "r">>
ZeroWeight == <<"0", ".", "0", "0">>
OneWeight == <<"1", ".", "0", "0">>

(***************************************************************************)
(* JsonTreeItem objects.  The heap maps the address of each live item to   *)
(* its fields; None is Python's None.                                      *)
(***************************************************************************)
None == 0 - 1

JsonTreeItem(data, role, parent) ==
    [parentItem |-> parent, itemData |-> data, childItems |-> <<>>,
     role |-> role, font_color |-> "black"]

\* the address a newly constructed object gets: the lowest free one
Alloc(heap) == CHOOSE id \in 0..Cardinality(DOMAIN heap) :
                  /\ id \notin DOMAIN heap
                  /\ \A j \in 0..(id - 1) : j \in DOMAIN heap

\* JsonTreeItem.appendChild
appendChild(heap, parent, item) ==
    [heap EXCEPT ![parent].childItems = Append(@, item)]

childCount(heap, item) == Len(heap[item].childItems)

\* JsonTreeItem.data
ItemData(heap, item, column) ==
    IF column < Len(heap[item].itemData) THEN heap[item].itemData[column + 1] ELSE None

\* JsonTreeItem.setData: the heap after the call
ItemSetData(heap, item, column, value) ==
    IF column < Len(heap[item].itemData)
    THEN [heap EXCEPT ![item].itemData[column + 1] = value]
    ELSE heap

\* JsonTreeItem.setData: the value it returns
ItemSetDataResult(heap, item, column) == column < Len(heap[item].itemData)

\* JsonTreeModel.update_font_color
update_font_color(heap, item, color) == [heap EXCEPT ![item].font_color = color]

\* the items of the subtree under (and including) item
RECURSIVE Subtree(_, _)
Subtree(heap, item) ==
    {item} \cup UNION {Subtree(heap, heap[item].childItems[k]) :
                          k \in 1..Len(heap[item].childItems)}

(***************************************************************************)
(* Documents.  A JSON object is a record (a function of its keys), a JSON  *)
(* array a sequence, a JSON string a str.                                  *)
(***************************************************************************)
LayerName(k) == <<"L">> \o Digits(k)

\* a layer as generate_model.py writes it: {"layer": name, ...attributes}
FlatLayer(k) == [layer |-> LayerName(k), source |-> <<"o", "s", "m">>]

\* a flat layer that also carries a "weighting"
WeightedLayer(k, w) ==
    [layer |-> LayerName(k), source |-> <<"o", "s", "m">>, weighting |-> w]

\* a layer object with no "layer" key
UnknownLayer == [title |-> LayerName(9), source |-> <<"o", "s", "m">>]

FlatLayers(n) == [k \in 1..n |-> FlatLayer(k)] \o <<>>

FactorDoc(name, layers) == [name |-> name, layers |-> layers]
DimensionDoc(name, factors) == [name |-> name, factors |-> factors]

NameEdu == <<"e", "d", "u">>
NameWash == <<"w", "a", "s", "h", " ", "a", "i", "d">>
NameF == <<"F", "1">>
NameG == <<"G", "2">>

\* one dimension holding one factor of n layers, none with a "weighting"
OneFactorDoc(n) ==
    [dimensions |-> <<DimensionDoc(NameEdu, <<FactorDoc(NameF, FlatLayers(n))>>)>>]

\* the document MainWindow starts from when there is no file
EmptyDoc == [dimensions |-> <<>>]

\* a factor without a "layers" key, and a dimension without a "factors" key
BareDoc ==
    [dimensions |-> <<[name |-> NameEdu, factors |-> <<[name |-> NameF]>>],
                      [name |-> NameWash]>>]

\* two dimensions; the first holds a factor of two layers and one of one
TwoDimensionDoc ==
    [dimensions |->
        <<DimensionDoc(NameEdu, <<FactorDoc(NameF, FlatLayers(2)),
                                  FactorDoc(NameG, FlatLayers(1))>>),
          DimensionDoc(NameWash, <<>>)>>]

\* every layer of the factor carries an explicit weighting: 0.70 and 0.30
WeightedDoc ==
    [dimensions |->
        <<DimensionDoc(NameEdu,
            <<FactorDoc(NameF, <<WeightedLayer(1, <<"0", ".", "7", "0">>),
                                 WeightedLayer(2, <<"0", ".", "3", "0">>)>>)>>)>>]

\* the second dimension has no "name"
NamelessDimensionDoc ==
    [dimensions |->
        <<DimensionDoc(NameEdu, <<FactorDoc(NameF, FlatLayers(1))>>),
          [factors |-> <<FactorDoc(NameG, FlatLayers(1))>>]>>]

\* the second factor has no "name"
NamelessFactorDoc ==
    [dimensions |->
        <<DimensionDoc(NameEdu, <<FactorDoc(NameF, FlatLayers(2)),
                                  [layers |-> FlatLayers(1)]>>)>>]

\* the second layer of the factor has no "layer" key
UnknownLayerDoc ==
    [dimensions |->
        <<DimensionDoc(NameEdu,
            <<FactorDoc(NameF, <<FlatLayer(1), UnknownLayer, FlatLayer(3)>>)>>)>>]

\* the keys of a layer object that to_json reads, as generate_model.py writes
\* them
AttributeKeys ==
    {"Text", "Default Weighting", "Use Aggregate", "Default Index Score",
     "Index Score", "Use default Idex Score", "Rasterise Raster",
     "Rasterise Polygon", "Rasterise Polyline", "Rasterise Point",
     "Default Buffer Distances", "Use Buffer point", "Default pixel",
     "Use Create Grid", "Default Mode", "Default Measurement",
     "Default Increments", "Use Mode of Travel", "source", "indicator", "query"}

\* a layer object as generate_model.py writes it: "layer" and every key of
\* AttributeKeys
FullLayer(k) ==
    [key \in AttributeKeys \cup {"layer"} |->
        IF key = "layer" THEN LayerName(k)
        ELSE IF key \in {"Text", "source"} THEN <<"o", "s", "m">>
        ELSE IF key = "Default Weighting" THEN Digits(k)
        ELSE EmptyStr]

FullLayers(n) == [k \in 1..n |-> FullLayer(k)] \o <<>>

\* a layer object with every key of FullLayer and a "weighting" besides
ExtraKeyLayer(k) ==
    [key \in AttributeKeys \cup {"layer", "weighting"} |->
        IF key = "weighting" THEN OneWeight ELSE FullLayer(k)[key]]

\* a layer of the shape {layerName: {attributes}}
KeyedLayer == [L1 |-> [source |-> <<"o", "s", "m">>]]

\* one dimension holding one factor of n layers written by generate_model.py
FullFactorDoc(n) ==
    [dimensions |-> <<DimensionDoc(NameEdu, <<FactorDoc(NameF, FullLayers(n))>>)>>]

\* two dimensions of layers written by generate_model.py
FullTwoDimensionDoc ==
    [dimensions |->
        <<DimensionDoc(NameEdu, <<FactorDoc(NameF, FullLayers(2)),
                                  FactorDoc(NameG, FullLayers(1))>>),
          DimensionDoc(NameWash, <<>>)>>]

\* the one layer of the factor carries a key to_json does not read
ExtraKeyDoc ==
    [dimensions |->
        <<DimensionDoc(NameEdu, <<FactorDoc(NameF, <<ExtraKeyLayer(1)>>)>>)>>]

\* the second layer of the factor has the shape {layerName: {attributes}}
KeyedLayerDoc ==
    [dimensions |->
        <<DimensionDoc(NameEdu, <<FactorDoc(NameF, <<FlatLayer(1), KeyedLayer>>)>>)>>]

\* the documents a file holds when the tree is exported: layers with every
\* key to_json reads, with fewer, with more, and of the single-key shape
CodecDocList ==
    <<EmptyDoc>> \o ([n \in 1..MaxLayers |-> FullFactorDoc(n)] \o <<>>)
      \o <<FullTwoDimensionDoc, OneFactorDoc(2), ExtraKeyDoc, KeyedLayerDoc>>

\* the documents a file holds when the tree is edited: well-formed ones, and
\* ones that lack a key loadJsonData reads
DocList ==
    <<EmptyDoc>> \o ([n \in 1..MaxLayers |-> OneFactorDoc(n)] \o <<>>)
      \o <<OneFactorDoc(0), BareDoc, TwoDimensionDoc,
           NamelessDimensionDoc, NamelessFactorDoc, UnknownLayerDoc>>

\* the documents a file holds when weights are edited: a factor split over
\* one to MaxSplit layers, two factors, and layers with explicit weightings
SplitDocList ==
    ([n \in 1..MaxSplit |-> OneFactorDoc(n)] \o <<>>)
      \o <<TwoDimensionDoc, WeightedDoc>>

\* dict.get(key, default)
Get(obj, key, default) == IF key \in DOMAIN obj THEN obj[key] ELSE default

(***************************************************************************)
(* JsonTreeModel.loadJsonData.  The loops run in document order over a     *)
(* load state: the heap built so far, the running factor_weighting_sum,    *)
(* and whether a KeyError has been raised (which ends the call there: the  *)
(* rounds after it leave the state as it is).                              *)
(***************************************************************************)
\* the loop "for layer in factor.get("layers", [])"
LoadLayers(st0, factor_item, layers, layer_weighting) ==
    LET after[k \in 0..Len(layers)] ==
          IF k = 0 THEN st0
          ELSE
            LET st == after[k - 1]
                layer == layers[k]
                weight == Get(layer, "weighting", EmptyStr)
                layer_item == Alloc(st.items)
                object == JsonTreeItem(
                    <<layer["layer"], RedCircle, Format2(layer_weighting), weight, layer>>,
                    "layer", factor_item)
                heap == appendChild(st.items @@ (layer_item :> object),
                                    factor_item, layer_item)
            IN  IF st.raised THEN st
                ELSE IF "layer" \notin DOMAIN layer THEN [st EXCEPT !.raised = TRUE]
                ELSE [st EXCEPT !.items = heap, !.sum = FAdd(st.sum, layer_weighting)]
    IN  after[Len(layers)]

\* the loop "for factor in dimension.get("factors", [])"
LoadFactors(st0, dimension_item, factors) ==
    LET after[j \in 0..Len(factors)] ==
          IF j = 0 THEN st0
          ELSE
            LET st == after[j - 1]
                factor == factors[j]
                factor_item == Alloc(st.items)
                object == JsonTreeItem(<<factor["name"], RedCircle, EmptyStr>>,
                                       "factor", dimension_item)
                heap == appendChild(st.items @@ (factor_item :> object),
                                    dimension_item, factor_item)
                layers == Get(factor, "layers", <<>>)
                num_layers == Len(layers)
                looped == LoadLayers([st EXCEPT !.items = heap, !.sum = FZero],
                                     factor_item, layers, FRecip(num_layers))
                totalled ==
                    update_font_color(
                        ItemSetData(looped.items, factor_item, 2, Format2(looped.sum)),
                        factor_item,
                        IF looped.sum = FOne THEN "green" ELSE "red")
            IN  IF st.raised THEN st
                ELSE IF "name" \notin DOMAIN factor THEN [st EXCEPT !.raised = TRUE]
                ELSE IF num_layers = 0 THEN [st EXCEPT !.items = heap]
                ELSE IF looped.raised THEN looped
                ELSE [looped EXCEPT !.items = totalled]
    IN  after[Len(factors)]

\* the loop "for dimension in json_data.get("dimensions", [])"
LoadDimensions(st0, root, dimensions) ==
    LET after[i \in 0..Len(dimensions)] ==
          IF i = 0 THEN st0
          ELSE
            LET st == after[i - 1]
                dimension == dimensions[i]
                dimension_item == Alloc(st.items)
                object == JsonTreeItem(
                    <<StrTitle(dimension["name"]), RedCircle, EmptyStr>>,
                    "dimension", root)
                heap == appendChild(st.items @@ (dimension_item :> object),
                                    root, dimension_item)
            IN  IF st.raised THEN st
                ELSE IF "name" \notin DOMAIN dimension THEN [st EXCEPT !.raised = TRUE]
                ELSE LoadFactors([st EXCEPT !.items = heap], dimension_item,
                                 Get(dimension, "factors", <<>>))
    IN  after[Len(dimensions)]

\* the root item both __init__ and loadJsonData construct
RootItem == JsonTreeItem(<<HeaderName, HeaderStatus, HeaderWeight>>, "root", None)

\* loadJsonData(document): the new root item, the heap reachable from it
\* when the call ends, and whether it ended by raising.  The old root is
\* dropped on the second line of the method, before any key is read.
loadJsonData(document) ==
    LET root == 0
        st == LoadDimensions([items |-> (root :> RootItem), sum |-> FZero,
                              raised |-> FALSE],
                             root, Get(document, "dimensions", <<>>))
    IN  [rootItem |-> root, items |-> st.items, raised |-> st.raised]

\* loadJsonData of every document of a list
LoadAll(docs) == [d \in 1..Len(docs) |-> loadJsonData(docs[d])] \o <<>>

Loaded == LoadAll(DocList)
LoadedSplit == LoadAll(SplitDocList)
LoadedCodec == LoadAll(CodecDocList)

(***************************************************************************)
(* The state of the program.                                               *)
(***************************************************************************)
VARIABLES
    items,      \* the heap: the live JsonTreeItem objects, by address
    rootItem,   \* JsonTreeModel.rootItem
    json_data,  \* MainWindow.json_data, the document read last
    lastCall,   \* the model method called last, its arguments and its outcome
    nEdits,     \* the number of setData calls since the last load
    exported,   \* what export_json_to_file did last: the document it wrote
    current_editing_index,  \* CustomTreeView.current_editing_index
    original_value,         \* CustomTreeView.original_value
    editor,     \* the cell editor the view has open, with the text typed in it
    fetcher,    \* the OsmPointsDownloader object: its query and output_path
    map_layers, \* QgsProject.instance(): the layers added to the project
    shapefiles, \* the calls of QgsVectorFileWriter.writeAsVectorFormat so far
    sent,       \* what send_query did last: the reply it got and its outcome
    nQueries,   \* the number of send_query calls so far
    leaf_nodes, \* the list process_leaves handed to process_each_leaf last
    timers,     \* the pending QTimer.singleShot calls, in the order they expire
    index_widgets  \* the items whose cell has a widget set by setIndexWidget

\* the fields of the view
viewVars == <<current_editing_index, original_value, editor>>

\* the timers and widgets of the leaves being processed
timerVars == <<timers, index_widgets>>

\* the downloader and what it writes to
osmVars == <<fetcher, map_layers, shapefiles, sent, nQueries>>

vars == <<items, rootItem, json_data, lastCall, nEdits, exported, viewVars,
          osmVars, leaf_nodes, timerVars>>

\* export_json_to_file has not run: there is no export.json
NotExported == [written |-> FALSE, document |-> [dimensions |-> <<>>]]

\* current_editing_index = None
NoIndex == [item |-> None, column |-> None]

\* original_value = None
NoValue == <<"(None)">>

\* the view has no editor open
NoEditor == [index |-> NoIndex, text |-> EmptyStr, committed |-> FALSE]

Call(method, item, column, value, result) ==
    [method |-> method, item |-> item, column |-> column, value |-> value,
     result |-> result]

\* the values a caller passes to setData
EditValues == {<<"a", "b", "c">>, <<"0", ".", "5">>}

\* the columns a caller of setData names: the name and the weight
Columns == {0, 2}

\* the items an index or a context menu can name: those under the root
Shown == Subtree(items, rootItem) \ {rootItem}

ItemsOf(role) == {i \in Shown : items[i].role = role}

(***************************************************************************)
(* osm_downloader.py: the Overpass replies a downloader is given.  An XML  *)
(* attribute is a string, "(None)" where the element does not have it.     *)
(***************************************************************************)
NoAttr == <<"(None)">>

OsmNode(id, lat, lon) == [id |-> id, lat |-> lat, lon |-> lon]
OsmWay(id, nds) == [id |-> id, nds |-> nds]

\* the body of a reply: whether it is well-formed XML, and the node and way
\* elements it holds in document order
OsmContent(wellFormed, nodes, ways) ==
    [wellFormed |-> wellFormed, nodes |-> nodes, ways |-> ways]

Lat1 == <<"1", "4", ".", "0", "1">>
Lon1 == <<"-", "6", "0", ".", "9", "8">>
Lat2 == <<"1", "4", ".", "0", "2">>
Lon2 == <<"-", "6", "0", ".", "9", "9">>

\* the reply of test_send_query_and_process_data: two nodes and one way
TestOsm ==
    OsmContent(TRUE,
               <<OsmNode(<<"1">>, Lat1, Lon1), OsmNode(<<"2">>, Lat2, Lon2)>>,
               <<OsmWay(<<"1", "2", "3">>, << <<"1">>, <<"2">> >>)>>)

\* <osm/>: no element matched the query
EmptyOsm == OsmContent(TRUE, <<>>, <<>>)

\* a body that is not XML ("[out:json]" in the query, or an empty body)
NotXml == OsmContent(FALSE, <<>>, <<>>)

\* "out body;" without "(._;>;);": the ways come without their nodes
WaysOnlyOsm ==
    OsmContent(TRUE, <<OsmNode(<<"1">>, Lat1, Lon1)>>,
               <<OsmWay(<<"1", "2", "3">>, << <<"1">>, <<"2">> >>)>>)

\* "out ids;": the nodes come without lat and lon
IdsOnlyOsm ==
    OsmContent(TRUE,
               <<OsmNode(<<"1">>, NoAttr, NoAttr), OsmNode(<<"2">>, NoAttr, NoAttr)>>,
               <<OsmWay(<<"1", "2", "3">>, << <<"1">>, <<"2">> >>)>>)

\* two ways, the second of one node
TwoWaysOsm ==
    OsmContent(TRUE,
               <<OsmNode(<<"1">>, Lat1, Lon1), OsmNode(<<"2">>, Lat2, Lon2)>>,
               <<OsmWay(<<"1", "2", "3">>, << <<"1">>, <<"2">> >>),
                 OsmWay(<<"4">>, << <<"2">> >>)>>)

OsmContents ==
    {TestOsm, EmptyOsm, NotXml, WaysOnlyOsm, IdsOnlyOsm, TwoWaysOsm}

\* reply.error() is a QNetworkReply.NetworkError, NoError being 0
NetworkErrors == {"NoError", "TimeoutError"}

Replies == [error : NetworkErrors, content : OsmContents]

Queries == {<<"w", "a", "y">>, <<"n", "o", "d", "e">>}
OutputPaths == {<<"a", ".", "s", "h", "p">>, <<"b", ".", "s", "h", "p">>}

\* no downloader is constructed
NoDownloader == [query |-> EmptyStr, output_path |-> EmptyStr]

\* send_query has not been called
NotSent ==
    [reply |-> [error |-> "NoError", content |-> EmptyOsm],
     called |-> FALSE, processed |-> FALSE, raised |-> "", calls |-> <<>>,
     printed |-> EmptyStr]

(***************************************************************************)
(* MainWindow.__init__: json_data is the document of the file given (one   *)
(* that loads; a KeyError in the constructor ends the program) or the      *)
(* empty document, and JsonTreeModel(json_data) loads it.                  *)
(***************************************************************************)
AppInit(docs, loaded) ==
    \E d \in 1..Len(docs) :
        /\ ~loaded[d].raised
        /\ json_data = docs[d]
        /\ items = loaded[d].items
        /\ rootItem = loaded[d].rootItem
        /\ lastCall = Call("loadJsonData", None, None, EmptyStr, "returned")
        /\ nEdits = 0
        /\ exported = NotExported
        /\ current_editing_index = NoIndex
        /\ original_value = NoValue
        /\ editor = NoEditor
        /\ leaf_nodes = <<>>
        /\ timers = <<>>
        /\ index_widgets = {}

\* the application constructs no downloader
InitFrom(docs, loaded) ==
    /\ AppInit(docs, loaded)
    /\ fetcher = NoDownloader
    /\ map_layers = <<>>
    /\ shapefiles = <<>>
    /\ sent = NotSent
    /\ nQueries = 0

Init == InitFrom(DocList, Loaded)

\* OsmPointsDownloader.__init__(query, output_path), with no document open
InitOsm ==
    /\ AppInit(<<EmptyDoc>>, LoadAll(<<EmptyDoc>>))
    /\ \E query \in Queries, output_path \in OutputPaths :
           fetcher = [query |-> query, output_path |-> output_path]
    /\ map_layers = <<>>
    /\ shapefiles = <<>>
    /\ sent = NotSent
    /\ nQueries = 0

InitSplit == InitFrom(SplitDocList, LoadedSplit)

\* the documents of one factor with layers
EscapeDocList == [n \in 1..MaxLayers |-> OneFactorDoc(n)] \o <<>>

LoadedEscape == LoadAll(EscapeDocList)

InitEscape == InitFrom(EscapeDocList, LoadedEscape)

InitCodec == InitFrom(CodecDocList, LoadedCodec)

\* MainWindow.load_json_from_file with a file chosen: load_json reads the
\* document, then model.loadJsonData(json_data)
LoadFrom(docs, loaded) ==
    \E d \in 1..Len(docs) :
        /\ json_data' = docs[d]
        /\ items' = loaded[d].items
        /\ rootItem' = loaded[d].rootItem
        /\ lastCall' = Call("loadJsonData", None, None, EmptyStr,
                            IF loaded[d].raised THEN "raised" ELSE "returned")
        /\ nEdits' = 0
        /\ UNCHANGED <<exported, viewVars, osmVars, leaf_nodes, timerVars>>

LoadJsonFromFile == LoadFrom(DocList, Loaded)

LoadSplitFromFile == LoadFrom(SplitDocList, LoadedSplit)

LoadCodecFromFile == LoadFrom(CodecDocList, LoadedCodec)

\* JsonTreeModel.setData(index, value, Qt.EditRole), the second definition of
\* the class body (it replaces the first): item.setData(index.column(), value)
setData(item, column, value) ==
    /\ items' = ItemSetData(items, item, column, value)
    /\ lastCall' = Call("setData", item, column, value,
                        IF ItemSetDataResult(items, item, column) THEN "True" ELSE "False")

SetData ==
    \E item \in Shown, column \in Columns, value \in EditValues :
        /\ nEdits < MaxEdits
        /\ setData(item, column, value)
        /\ nEdits' = nEdits + 1
        /\ UNCHANGED <<rootItem, json_data, exported, viewVars, osmVars, leaf_nodes, timerVars>>

RECURSIVE SetChildren(_, _, _, _)
\* for i in range(k): factor_item.child(i).setData(2, value)
SetChildren(heap, factor_item, k, value) ==
    IF k = 0 THEN heap
    ELSE ItemSetData(SetChildren(heap, factor_item, k - 1, value),
                     heap[factor_item].childItems[k], 2, value)

\* clear_layer_weightings without its factor_item.setData(2, "0.00")
clear_layer_weightings_keeps_factor_weight(heap, factor_item) ==
    update_font_color(
        SetChildren(heap, factor_item, childCount(heap, factor_item), ZeroWeight),
        factor_item, "red")

\* JsonTreeModel.clear_layer_weightings(factor_item)
clear_layer_weightings(heap, factor_item) ==
    update_font_color(
        ItemSetData(SetChildren(heap, factor_item, childCount(heap, factor_item),
                                ZeroWeight),
                    factor_item, 2, ZeroWeight),
        factor_item, "red")

\* the context menu of a factor: Clear Layer Weightings
ClearLayerWeightings ==
    \E factor_item \in ItemsOf("factor") :
        /\ items' = clear_layer_weightings(items, factor_item)
        /\ lastCall' = Call("clear_layer_weightings", factor_item, None, EmptyStr, "returned")
        /\ UNCHANGED <<rootItem, json_data, nEdits, exported,
                       viewVars, osmVars, leaf_nodes, timerVars>>

\* JsonTreeModel.auto_assign_layer_weightings(factor_item)
auto_assign_layer_weightings(heap, factor_item) ==
    LET num_layers == childCount(heap, factor_item)
    IN  IF num_layers = 0 THEN heap
        ELSE update_font_color(
                 ItemSetData(SetChildren(heap, factor_item, num_layers,
                                         Format2(FRecip(num_layers))),
                             factor_item, 2, OneWeight),
                 factor_item, "green")

\* the context menu of a factor: Auto Assign Layer Weightings
AutoAssignLayerWeightings ==
    \E factor_item \in ItemsOf("factor") :
        /\ items' = auto_assign_layer_weightings(items, factor_item)
        /\ lastCall' = Call("auto_assign_layer_weightings", factor_item, None, EmptyStr,
                            "returned")
        /\ UNCHANGED <<rootItem, json_data, nEdits, exported,
                       viewVars, osmVars, leaf_nodes, timerVars>>

\* JsonTreeModel.add_factor(dimension_item)
add_factor(heap, dimension_item) ==
    LET new_factor == Alloc(heap)
    IN  appendChild(
            heap @@ (new_factor :> JsonTreeItem(<<NewFactorName, RedCircle, EmptyStr>>,
                                                "factor", dimension_item)),
            dimension_item, new_factor)

\* the context menu of a dimension: Add Factor
AddFactor ==
    \E dimension_item \in ItemsOf("dimension") :
        /\ Cardinality(DOMAIN items) < MaxItems
        /\ items' = add_factor(items, dimension_item)
        /\ lastCall' = Call("add_factor", dimension_item, None, EmptyStr, "returned")
        /\ UNCHANGED <<rootItem, json_data, nEdits, exported,
                       viewVars, osmVars, leaf_nodes, timerVars>>

\* add_layer giving the new layer the factor's parent as parentItem
add_layer_under_dimension(heap, factor_item) ==
    LET new_layer == Alloc(heap)
    IN  appendChild(
            heap @@ (new_layer :> JsonTreeItem(<<NewLayerName, RedCircle, OneWeight>>,
                                               "layer", heap[factor_item].parentItem)),
            factor_item, new_layer)

\* JsonTreeModel.add_layer(factor_item)
add_layer(heap, factor_item) ==
    LET new_layer == Alloc(heap)
    IN  appendChild(
            heap @@ (new_layer :> JsonTreeItem(<<NewLayerName, RedCircle, OneWeight>>,
                                               "layer", factor_item)),
            factor_item, new_layer)

\* the context menu of a factor: Add Layer
AddLayer ==
    \E factor_item \in ItemsOf("factor") :
        /\ Cardinality(DOMAIN items) < MaxItems
        /\ items' = add_layer(items, factor_item)
        /\ lastCall' = Call("add_layer", factor_item, None, EmptyStr, "returned")
        /\ UNCHANGED <<rootItem, json_data, nEdits, exported,
                       viewVars, osmVars, leaf_nodes, timerVars>>

\* JsonTreeModel.add_dimension(name="New Dimension")
add_dimension(heap, root, name) ==
    LET new_dimension == Alloc(heap)
    IN  appendChild(
            heap @@ (new_dimension :> JsonTreeItem(<<name, RedCircle, EmptyStr>>,
                                                   "dimension", root)),
            root, new_dimension)

\* MainWindow.add_dimension, the Add Dimension button
AddDimension ==
    /\ Cardinality(DOMAIN items) < MaxItems
    /\ items' = add_dimension(items, rootItem, NewDimensionName)
    /\ lastCall' = Call("add_dimension", None, None, EmptyStr, "returned")
    /\ UNCHANGED <<rootItem, json_data, nEdits, exported, viewVars, osmVars, leaf_nodes, timerVars>>

\* list.remove(x): the list without the first element equal to x
ListRemove(list, x) ==
    LET at == CHOOSE k \in 1..Len(list) : list[k] = x /\ \A j \in 1..(k - 1) : list[j] # x
    IN  SubSeq(list, 1, at - 1) \o SubSeq(list, at + 1, Len(list))

RECURSIVE Preorder(_, _)
\* the items of the subtree under item, parents before children, in row order
Preorder(heap, item) ==
    LET below[k \in 0..Len(heap[item].childItems)] ==
          IF k = 0 THEN <<>>
          ELSE below[k - 1] \o Preorder(heap, heap[item].childItems[k])
    IN  <<item>> \o below[Len(heap[item].childItems)]

\* the heap without the objects nothing refers to any more.  An address is
\* only ever compared with another address, so the objects that stay are
\* named anew by their place in the tree, every reference to them with them.
Collect(heap, root) ==
    LET order == Preorder(heap, root)
        place(i) == IF i = None THEN None
                    ELSE (CHOOSE k \in 1..Len(order) : order[k] = i) - 1
    IN  [n \in 0..(Len(order) - 1) |->
            LET object == heap[order[n + 1]]
            IN  [object EXCEPT
                   !.parentItem = place(@),
                   !.childItems = [k \in 1..Len(@) |-> place(@[k])] \o <<>>]]

\* JsonTreeModel.remove_item(item)
remove_item(heap, root, item) ==
    LET parent == heap[item].parentItem
    IN  IF parent # None
        THEN Collect([heap EXCEPT ![parent].childItems = ListRemove(@, item)], root)
        ELSE heap

\* the context menus: Remove Dimension, Remove Factor, Remove Layer
RemoveItem ==
    \E item \in Shown :
        /\ items' = remove_item(items, rootItem, item)
        /\ lastCall' = Call("remove_item", item, None, EmptyStr, "returned")
        /\ UNCHANGED <<rootItem, json_data, nEdits, exported,
                       viewVars, osmVars, leaf_nodes, timerVars>>

\* list.pop(row) raises IndexError: the list has no such row (a negative
\* row counts from the end)
PopRaises(list, row) == row >= Len(list) \/ row < 0 - Len(list)

\* the list after list.pop(row)
ListPop(list, row) ==
    LET at == IF row < 0 THEN Len(list) + row + 1 ELSE row + 1
    IN  SubSeq(list, 1, at - 1) \o SubSeq(list, at + 1, Len(list))

\* JsonTreeModel.removeRow(row, parent): the heap after the call, with
\* parentItem the root for an invalid parent index
removeRow(heap, root, parentItem, row) ==
    IF PopRaises(heap[parentItem].childItems, row) THEN heap
    ELSE Collect([heap EXCEPT ![parentItem].childItems = ListPop(@, row)], root)

\* a caller removes a row of the root or of an item; of a call that raised
\* IndexError only that it raised is kept
RemoveRow ==
    \E parentItem \in Subtree(items, rootItem) :
        \E row \in (0 - 1)..childCount(items, parentItem) :
            /\ items' = removeRow(items, rootItem, parentItem, row)
            /\ lastCall' = IF PopRaises(items[parentItem].childItems, row)
                           THEN Call("removeRow", None, None, EmptyStr, "raised")
                           ELSE Call("removeRow", parentItem, row, EmptyStr,
                                     "returned")
            /\ UNCHANGED <<rootItem, json_data, nEdits, exported,
                           viewVars, osmVars, leaf_nodes, timerVars>>

\* recurse_tree(item) for a layer: whether building the dict raises (data(4)
\* is None for an item of three columns; a key of AttributeKeys is missing)
LayerRaises(heap, item) ==
    \/ Len(heap[item].itemData) < 5
    \/ \E key \in AttributeKeys : key \notin DOMAIN heap[item].itemData[5]

\* recurse_tree(item) for a layer: the dict it returns
LayerJson(heap, item) ==
    [key \in AttributeKeys \cup {"layer"} |->
        IF key = "layer" THEN ItemData(heap, item, 0)
        ELSE heap[item].itemData[5][key]]

RECURSIVE recurse_tree(_, _)
\* to_json.recurse_tree(item): whether it raises, and the value it returns
recurse_tree(heap, item) ==
    LET children == [k \in 1..Len(heap[item].childItems) |->
                        recurse_tree(heap, heap[item].childItems[k])] \o <<>>
        raised == \E k \in 1..Len(children) : children[k].raised
        values == [k \in 1..Len(children) |-> children[k].value] \o <<>>
    IN  IF heap[item].role = "dimension"
        THEN [raised |-> raised,
              value |-> [name |-> StrLower(ItemData(heap, item, 0)), factors |-> values]]
        ELSE IF heap[item].role = "factor"
        THEN [raised |-> raised,
              value |-> [name |-> ItemData(heap, item, 0), layers |-> values]]
        ELSE IF LayerRaises(heap, item)
        THEN [raised |-> TRUE, value |-> [layer |-> ItemData(heap, item, 0)]]
        ELSE [raised |-> FALSE, value |-> LayerJson(heap, item)]

\* JsonTreeModel.to_json: whether it raises, and the document it returns
to_json(heap, root) ==
    LET children == [k \in 1..Len(heap[root].childItems) |->
                        recurse_tree(heap, heap[root].childItems[k])] \o <<>>
    IN  [raised |-> \E k \in 1..Len(children) : children[k].raised,
         document |-> [dimensions |->
                          [k \in 1..Len(children) |-> children[k].value] \o <<>>]]

\* MainWindow.export_json_to_file, the Export button: nothing is written
\* when to_json raises
ExportJsonToFile ==
    LET result == to_json(items, rootItem)
    IN  /\ exported' = IF result.raised THEN exported
                       ELSE [written |-> TRUE, document |-> result.document]
        /\ lastCall' = Call("to_json", None, None, EmptyStr,
                            IF result.raised THEN "raised" ELSE "returned")
        /\ UNCHANGED <<items, rootItem, json_data, nEdits, viewVars, osmVars, leaf_nodes, timerVars>>

(***************************************************************************)
(* The model's flags and CustomTreeView.  Qt gives the keys to the editor  *)
(* while one is open and closes it (commit, then close) before it hands    *)
(* the view a mouse press, so the view's edit is called with no editor     *)
(* open.                                                                   *)
(***************************************************************************)
\* JsonTreeModel.flags(index), the second definition of the class body
flags(heap, item, column) ==
    IF column = 0
    THEN IF heap[item].parentItem = None
         THEN {"ItemIsSelectable", "ItemIsEditable", "ItemIsEnabled",
               "ItemIsDragEnabled", "ItemIsDropEnabled"}
         ELSE {"ItemIsSelectable", "ItemIsEditable", "ItemIsEnabled"}
    ELSE {"ItemIsSelectable", "ItemIsEnabled"}

\* a model index with an item behind it
Index(item, column) == [item |-> item, column |-> column]

\* data(index, Qt.DisplayRole) reading the item's status whatever the column
ModelData_of_status(heap, index) == ItemData(heap, index.item, 1)

\* JsonTreeModel.data(index, Qt.DisplayRole)
ModelData(heap, index) == ItemData(heap, index.item, index.column)

\* CustomTreeView.edit(index, trigger, event): the fields are set, and
\* super().edit opens an editor, or does not, on a cell that is editable
ViewEdit ==
    \E item \in Shown, column \in Columns, opens \in BOOLEAN, text \in EditValues :
        /\ editor = NoEditor
        /\ current_editing_index' = Index(item, column)
        /\ original_value' = ModelData(items, Index(item, column))
        /\ editor' = IF opens /\ "ItemIsEditable" \in flags(items, item, column)
                     THEN [index |-> Index(item, column), text |-> text,
                           committed |-> FALSE]
                     ELSE NoEditor
        /\ UNCHANGED <<items, rootItem, json_data, lastCall, nEdits,
                       exported, osmVars, leaf_nodes, timerVars>>

\* CustomTreeView.commitData(editor): super().commitData has the delegate
\* call model.setData(the editor's index, the editor's text)
CommitData ==
    /\ editor # NoEditor
    /\ nEdits < MaxEdits
    /\ IF current_editing_index # NoIndex
       THEN /\ setData(editor.index.item, editor.index.column, editor.text)
            /\ current_editing_index' = NoIndex
            /\ original_value' = NoValue
            /\ editor' = [editor EXCEPT !.committed = TRUE]
            /\ nEdits' = nEdits + 1
       ELSE UNCHANGED <<items, lastCall, viewVars, nEdits>>
    /\ UNCHANGED <<rootItem, json_data, exported, osmVars, leaf_nodes, timerVars>>

\* CustomTreeView.closeEditor(editor, hint): the heap after the call
closeEditor(heap, index, value, hint) ==
    IF hint = "RevertModelCache" /\ index # NoIndex
    THEN ItemSetData(heap, index.item, index.column, value)
    ELSE heap

\* the delegate closes the editor: with RevertModelCache on Escape, with
\* another hint otherwise
CloseEditor ==
    \E hint \in {"RevertModelCache", "NoHint"} :
        /\ editor # NoEditor
        /\ items' = closeEditor(items, current_editing_index, original_value, hint)
        /\ lastCall' = IF hint = "RevertModelCache" /\ current_editing_index # NoIndex
                       THEN Call("setData", current_editing_index.item,
                                 current_editing_index.column, original_value,
                                 IF ItemSetDataResult(items, current_editing_index.item,
                                                      current_editing_index.column)
                                 THEN "True" ELSE "False")
                       ELSE lastCall
        /\ current_editing_index' = NoIndex
        /\ original_value' = NoValue
        /\ editor' = NoEditor
        /\ UNCHANGED <<rootItem, json_data, nEdits, exported, osmVars, leaf_nodes, timerVars>>

\* CustomTreeView.keyPressEvent(event) with the Escape key: after setData the
\* handler raises AttributeError (the view has no hasCurrentEditor), so the
\* fields stay as they are; with no index remembered the key goes to
\* super().keyPressEvent
KeyPressEscape ==
    /\ IF current_editing_index # NoIndex
       THEN setData(current_editing_index.item, current_editing_index.column,
                    original_value)
       ELSE UNCHANGED <<items, lastCall>>
    /\ UNCHANGED <<rootItem, json_data, nEdits, exported, viewVars, osmVars, leaf_nodes, timerVars>>

(***************************************************************************)
(* osm_downloader.py.  float() reads the digits of an attribute.           *)
(***************************************************************************)
DigitChars == <<"0", "1", "2", "3", "4", "5", "6", "7", "8", "9">>

IsDigit(c) == \E d \in 1..Len(DigitChars) : DigitChars[d] = c

DigitValue(c) == (CHOOSE d \in 1..Len(DigitChars) : DigitChars[d] = c) - 1

\* the value of a string of digits
RECURSIVE DigitsValue(_)
DigitsValue(ds) ==
    IF ds = <<>> THEN 0
    ELSE 10 * DigitsValue(SubSeq(ds, 1, Len(ds) - 1)) + DigitValue(ds[Len(ds)])

\* float(text) of a text without sign: ValueError unless it is a numeral
\* with two decimals, whose value is held in hundredths
UnsignedFloat(text) ==
    IF /\ Len(text) > 3
       /\ text[Len(text) - 2] = "."
       /\ \A i \in 1..Len(text) : i # Len(text) - 2 => IsDigit(text[i])
    THEN [raised |-> "",
          value |-> 100 * DigitsValue(SubSeq(text, 1, Len(text) - 3))
                    + DigitsValue(SubSeq(text, Len(text) - 1, Len(text)))]
    ELSE [raised |-> "ValueError", value |-> 0]

Negated(number) == [number EXCEPT !.value = 0 - number.value]

\* float(text) of an attribute: TypeError for None
PyFloat(text) ==
    IF text = NoAttr THEN [raised |-> "TypeError", value |-> 0]
    ELSE IF Len(text) > 0 /\ text[1] = "-"
    THEN Negated(UnsignedFloat(SubSeq(text, 2, Len(text))))
    ELSE UnsignedFloat(text)

\* root.find(f".//node[@id='{ref}']"): the first node of that id, 0 for None
FindNode(nodes, ref) ==
    IF \A i \in 1..Len(nodes) : nodes[i].id # ref THEN 0
    ELSE CHOOSE i \in 1..Len(nodes) :
            /\ nodes[i].id = ref
            /\ \A j \in 1..(i - 1) : nodes[j].id # ref

\* QgsPointXY(lon, lat) of float(node.get('lat')) and float(node.get('lon'))
PointXY(lat, lon) ==
    IF lat.raised # "" THEN [raised |-> lat.raised, x |-> 0, y |-> 0]
    ELSE IF lon.raised # "" THEN [raised |-> lon.raised, x |-> 0, y |-> 0]
    ELSE [raised |-> "", x |-> lon.value, y |-> lat.value]

\* one turn of the loop over the nd elements of a way: node is None where
\* no node has the id, and node.get raises
NdPoint(nodes, ref) ==
    IF FindNode(nodes, ref) = 0
    THEN [raised |-> "AttributeError", x |-> 0, y |-> 0]
    ELSE PointXY(PyFloat(nodes[FindNode(nodes, ref)].lat),
                 PyFloat(nodes[FindNode(nodes, ref)].lon))

\* the exception of the first turn of a loop that raises, "" if none does
FirstRaised(turns) ==
    IF \A k \in 1..Len(turns) : turns[k].raised = "" THEN ""
    ELSE turns[CHOOSE k \in 1..Len(turns) :
                  /\ turns[k].raised # ""
                  /\ \A j \in 1..(k - 1) : turns[j].raised = ""].raised

WayPoints(nodes, way) ==
    [k \in 1..Len(way.nds) |-> NdPoint(nodes, way.nds[k])] \o <<>>

\* the feature made of the points of a way
Feature(way, points) ==
    [raised |-> FirstRaised(points),
     geometry |-> [k \in 1..Len(points) |->
                      [x |-> points[k].x, y |-> points[k].y]] \o <<>>,
     attributes |-> <<way.id>>]

\* one turn of the loop over the ways
WayFeature(nodes, way) == Feature(way, WayPoints(nodes, way))

\* the memory layer "Footways" with its field and the features added to it
FootwaysLayer(features) ==
    [name |-> <<"F", "o", "o", "t", "w", "a", "y", "s">>,
     fields |-> << <<"o", "s", "m", "_", "i", "d">> >>,
     features |-> [w \in 1..Len(features) |->
                      [geometry |-> features[w].geometry,
                       attributes |-> features[w].attributes]] \o <<>>]

\* the end of process_data: the layer is added to the project and written
\* as a shapefile
SaveLayer(downloader, layer) ==
    [raised |-> "",
     added |-> <<layer>>,
     calls |-> <<[layer |-> layer,
                  fileName |-> downloader.output_path,
                  fileEncoding |-> "UTF-8",
                  crs |-> 4326,
                  driverName |-> "ESRI Shapefile"]>>,
     printed |-> <<"Shapefile saved to ">> \o downloader.output_path]

Raises(exception) ==
    [raised |-> exception, added |-> <<>>, calls |-> <<>>,
     printed |-> EmptyStr]

\* process_data after ET.fromstring(data) returned
ProcessFeatures(downloader, features) ==
    IF FirstRaised(features) # "" THEN Raises(FirstRaised(features))
    ELSE SaveLayer(downloader, FootwaysLayer(features))

\* OsmPointsDownloader.process_data(data)
process_data(downloader, data) ==
    IF ~data.wellFormed THEN Raises("ParseError")
    ELSE ProcessFeatures(downloader,
                         [w \in 1..Len(data.ways) |->
                             WayFeature(data.nodes, data.ways[w])] \o <<>>)

\* what send_query did with a reply
Sent(reply, processed, done) ==
    [reply |-> reply, called |-> TRUE, processed |-> processed,
     raised |-> done.raised, calls |-> done.calls, printed |-> done.printed,
     added |-> done.added]

\* OsmPointsDownloader.send_query() with the reply blocking_request.fetch
\* returns
send_query(downloader, reply) ==
    IF reply.error # "NoError"
    THEN Sent(reply, FALSE,
              [Raises("") EXCEPT !.printed = <<"Network Error: ">>])
    ELSE Sent(reply, TRUE, process_data(downloader, reply.content))

SendQuery ==
    /\ nQueries < MaxQueries
    /\ \E reply \in Replies :
        \E done \in {send_query(fetcher, reply)} :
            /\ sent' = [reply |-> done.reply, called |-> done.called,
                        processed |-> done.processed, raised |-> done.raised,
                        calls |-> done.calls, printed |-> done.printed]
            /\ map_layers' = map_layers \o done.added
            /\ shapefiles' = shapefiles \o done.calls
            /\ nQueries' = nQueries + 1
            /\ UNCHANGED <<fetcher, items, rootItem, json_data, lastCall,
                           nEdits, exported, viewVars, leaf_nodes, timerVars>>

(***************************************************************************)
(* MainWindow.process_leaves.  A model index of column 0 is the item       *)
(* behind it, None for the invalid QModelIndex().                          *)
(***************************************************************************)
\* JsonTreeModel.rowCount(parent)
rowCount(heap, root, parent) ==
    childCount(heap, IF parent = None THEN root ELSE parent)

\* QAbstractItemModel.hasIndex(row, 0, parent)
hasIndex(heap, root, row, parent) ==
    row >= 0 /\ row < rowCount(heap, root, parent)

\* QAbstractItemModel.hasChildren(parent): rowCount(parent) > 0 and
\* columnCount(parent) > 0, columnCount being the three columns of the root
hasChildren(heap, root, parent) ==
    rowCount(heap, root, parent) > 0 /\ Len(heap[root].itemData) > 0

\* JsonTreeModel.index(row, 0, parent)
index(heap, root, row, parent) ==
    IF ~hasIndex(heap, root, row, parent) THEN None
    ELSE heap[IF parent = None THEN root ELSE parent].childItems[row + 1]

\* find_leaves(node_index), and the turns of its loop from a row on
RECURSIVE find_leaves(_, _, _), find_leaves_rows(_, _, _, _)
find_leaves(heap, root, node_index) ==
    IF hasChildren(heap, root, node_index)
    THEN find_leaves_rows(heap, root, node_index, 0)
    ELSE <<node_index>>

find_leaves_rows(heap, root, node_index, row) ==
    IF row >= rowCount(heap, root, node_index) THEN <<>>
    ELSE find_leaves(heap, root, index(heap, root, row, node_index))
         \o find_leaves_rows(heap, root, node_index, row + 1)

\* the loop of process_leaves from a row on: find_leaves of the index at
\* that row under root_index
RECURSIVE process_rows(_, _, _, _)
process_rows(heap, root, root_index, row) ==
    IF row >= rowCount(heap, root, None) THEN <<>>
    ELSE find_leaves(heap, root, index(heap, root, row, root_index))
         \o process_rows(heap, root, root_index, row + 1)

\* the leaf_nodes process_leaves collects: root_index is model.index(0, 0)
process_leaves(heap, root) ==
    process_rows(heap, root, index(heap, root, 0, None), 0)

\* QTimer.singleShot(2000, lambda: self.finish_processing(node_index,
\* leaf_nodes, index, movie)): what the lambda holds; position counts from 0
Timer(node_index, leaves, position) ==
    [node_index |-> node_index, leaf_nodes |-> leaves, index |-> position]

\* MainWindow.process_each_leaf(leaf_nodes, index): the pending timers and
\* the index widgets after it.  model.setData with Qt.ForegroundRole
\* returns False and changes nothing.
process_each_leaf(pending, widgets, leaves, position) ==
    IF position >= Len(leaves)
    THEN [timers |-> pending, index_widgets |-> widgets]
    ELSE [timers |-> Append(pending,
                            Timer(leaves[position + 1], leaves, position)),
          index_widgets |-> widgets \cup {leaves[position + 1]}]

\* MainWindow.finish_processing(node_index, leaf_nodes, index, movie): the
\* widget of the node is removed and the next leaf is started
finish_processing(pending, widgets, timer) ==
    process_each_leaf(pending, widgets \ {timer.node_index},
                      timer.leaf_nodes, timer.index + 1)

\* the Prepare button: process_leaves collects the leaves and hands them to
\* process_each_leaf, which starts the first of them
ProcessLeaves ==
    /\ Len(timers) < MaxChains
    /\ \E started \in {process_each_leaf(timers, index_widgets,
                                          process_leaves(items, rootItem), 0)} :
          /\ timers' = started.timers
          /\ index_widgets' = started.index_widgets
    /\ leaf_nodes' = process_leaves(items, rootItem)
    /\ lastCall' = Call("process_leaves", None, None, EmptyStr, "returned")
    /\ UNCHANGED <<items, rootItem, json_data, nEdits, exported, viewVars,
                   osmVars>>

\* the timer that expires first fires: finish_processing runs
FinishProcessing ==
    /\ timers # <<>>
    /\ \E finished \in {finish_processing(Tail(timers), index_widgets,
                                           Head(timers))} :
          /\ timers' = finished.timers
          /\ index_widgets' = finished.index_widgets
    /\ lastCall' = Call("finish_processing", Head(timers).node_index, None,
                        EmptyStr, "returned")
    /\ UNCHANGED <<items, rootItem, json_data, nEdits, exported, viewVars,
                   osmVars, leaf_nodes>>

\* the tree is loaded, cleared, auto-assigned, added to and removed from
Next ==
    \/ LoadJsonFromFile
    \/ ClearLayerWeightings
    \/ AutoAssignLayerWeightings
    \/ AddFactor
    \/ AddLayer
    \/ AddDimension
    \/ RemoveItem
    \/ RemoveRow

Spec == Init /\ [][Next]_vars

\* the weights of a loaded tree are set, cleared and auto-assigned
NextWeights ==
    \/ LoadSplitFromFile
    \/ SetData
    \/ ClearLayerWeightings
    \/ AutoAssignLayerWeightings

SpecWeights == InitSplit /\ [][NextWeights]_vars

\* a loaded tree is exported, before and after layers are added and items
\* removed
NextCodec ==
    \/ LoadCodecFromFile
    \/ ExportJsonToFile
    \/ AddLayer
    \/ RemoveItem

SpecCodec == InitCodec /\ [][NextCodec]_vars

\* cells of a loaded tree are edited through the view
NextView ==
    \/ ViewEdit
    \/ CommitData
    \/ CloseEditor
    \/ KeyPressEscape

SpecView == Init /\ [][NextView]_vars

\* cells are edited through the view, and between edits the context menu of
\* a factor clears and auto-assigns its weights (the menu opens with no
\* editor open: the press that opens it takes the focus from the editor)
NextEscape ==
    \/ ViewEdit
    \/ CommitData
    \/ CloseEditor
    \/ KeyPressEscape
    \/ (editor = NoEditor /\ ClearLayerWeightings)
    \/ (editor = NoEditor /\ AutoAssignLayerWeightings)

SpecEscape == InitEscape /\ [][NextEscape]_vars

\* the leaves of a tree that is added to are processed: Prepare is clicked
\* and the timers expire (a reload would leave the pending timers with
\* indexes into the discarded tree)
NextLeaves ==
    \/ AddFactor
    \/ AddLayer
    \/ AddDimension
    \/ ProcessLeaves
    \/ FinishProcessing

SpecLeaves == Init /\ [][NextLeaves]_vars

\* a downloader sends its query again and again
NextOsm == SendQuery

SpecOsm == InitOsm /\ [][NextOsm]_vars

(***************************************************************************)
(* What the claims speak of: weights read back as numbers, a factor's      *)
(* layers, and the sum of their weights.                                   *)
(***************************************************************************)
\* whether float(s) returns: digits with at most one point among them (the
\* strings of the model carry no sign, exponent or blank)
IsNumber(s) ==
    /\ \E i \in 1..Len(s) : IsDigit(s[i])
    /\ \A i \in 1..Len(s) : IsDigit(s[i]) \/ s[i] = "."
    /\ \A i, j \in 1..Len(s) : (s[i] = "." /\ s[j] = ".") => i = j

\* float(s) in hundredths, for a string with at most two digits after the
\* point; None where float(s) raises ValueError
ParseFloat(s) ==
    IF ~IsNumber(s) THEN None
    ELSE
      LET point == IF \E i \in 1..Len(s) : s[i] = "."
                   THEN CHOOSE i \in 1..Len(s) : s[i] = "."
                   ELSE Len(s) + 1
          whole[k \in 0..(point - 1)] ==
              IF k = 0 THEN 0 ELSE 10 * whole[k - 1] + DigitValue(s[k])
          digit(i) == IF i <= Len(s) THEN DigitValue(s[i]) ELSE 0
      IN  100 * whole[point - 1] + 10 * digit(point + 1) + digit(point + 2)

\* the weight column of an item
Weight(i) == ItemData(items, i, 2)

\* the layers of a factor, in row order
LayersOf(f) == items[f].childItems

\* whether every layer of a factor holds a weight that reads as a number
LayersNumeric(f) == \A k \in 1..Len(LayersOf(f)) : IsNumber(Weight(LayersOf(f)[k]))

\* the sum, in hundredths, of the weights of a factor's layers
LayerSum(f) ==
    LET upto[k \in 0..Len(LayersOf(f))] ==
          IF k = 0 THEN 0 ELSE upto[k - 1] + ParseFloat(Weight(LayersOf(f)[k]))
    IN  upto[Len(LayersOf(f))]

\* whether the last call set the weight of a layer through setData
LayerWeightEdited ==
    /\ lastCall.method = "setData"
    /\ lastCall.column = 2
    /\ items[lastCall.item].role = "layer"

\* the factor whose weights the last call wrote: the one cleared or
\* auto-assigned, or the parent of the layer whose weight was set
TouchedFactor ==
    IF lastCall.method = "setData" THEN items[lastCall.item].parentItem
    ELSE lastCall.item

(***************************************************************************)
(* C1.  Weight invariant: once a layer's weight has been set through       *)
(* setData, or a factor has been auto-assigned or cleared, the weight      *)
(* stored for that factor (it has at least one layer, and each of its      *)
(* layers holds a number) equals the sum of its layers' weights.           *)
(***************************************************************************)
C1_WeightInvariant ==
    (/\ \/ LayerWeightEdited
        \/ lastCall.method \in {"auto_assign_layer_weightings", "clear_layer_weightings"}
     /\ childCount(items, TouchedFactor) >= 1
     /\ LayersNumeric(TouchedFactor))
    => ParseFloat(Weight(TouchedFactor)) = LayerSum(TouchedFactor)

(***************************************************************************)
(* C2.  Rejection leaves state unchanged: a setData call that gives the    *)
(* weight column of a layer a value that does not read as a number         *)
(* returns False, and the layer's weight and its factor's weight are what  *)
(* they were before the call.                                              *)
(***************************************************************************)
C2_RejectionLeavesState ==
    [][(/\ nEdits' = nEdits + 1
        /\ lastCall'.method = "setData"
        /\ lastCall'.column = 2
        /\ items[lastCall'.item].role = "layer"
        /\ ~IsNumber(lastCall'.value))
       => LET layer == lastCall'.item
              factor == items[layer].parentItem
          IN  /\ lastCall'.result = "False"
              /\ ItemData(items', layer, 2) = ItemData(items, layer, 2)
              /\ ItemData(items', factor, 2) = ItemData(items, factor, 2)]_vars

(***************************************************************************)
(* C3.  Balance classification: in every state, a factor is shown green if *)
(* and only if the weight stored for it, read back as a number, is 1.00.   *)
(***************************************************************************)
C3_BalancedIffOne ==
    \A f \in ItemsOf("factor") :
        (items[f].font_color = "green") <=> (ParseFloat(Weight(f)) = 100)

(***************************************************************************)
(* C4.  A factor that has no layers is not shown green and its weight is   *)
(* the empty string, in every state reached by loads, additions, removals, *)
(* auto-assignments and clears.                                            *)
(***************************************************************************)
C4_EmptyFactorUnweighted ==
    \A f \in ItemsOf("factor") :
        childCount(items, f) = 0
        => (items[f].font_color # "green" /\ Weight(f) = EmptyStr)

(***************************************************************************)
(* C5.  Atomic decode: a load that raises (a dimension or a factor has no  *)
(* name, a layer has no "layer" key) leaves the model with the root and    *)
(* the items it had before the call.                                       *)
(***************************************************************************)
C5_AtomicDecode ==
    [][(lastCall'.method = "loadJsonData" /\ lastCall'.result = "raised")
       => (rootItem' = rootItem /\ items' = items)]_vars

\* the weight "1 / n formatted to two decimals"
EqualSplit(n) == Format2(FRecip(n))

\* whether a factor's layers each hold the equal split, its weight is the
\* formatted sum of their weights, and it is green exactly when that sum is 1.00
SplitAndSummed(f) ==
    /\ \A k \in 1..Len(LayersOf(f)) :
           Weight(LayersOf(f)[k]) = EqualSplit(Len(LayersOf(f)))
    /\ Weight(f) = TwoDecimals(LayerSum(f))
    /\ (items[f].font_color = "green") <=> (LayerSum(f) = 100)

(***************************************************************************)
(* C6.  Right after auto_assign_layer_weightings on a factor with n >= 1   *)
(* layers, every layer's weight is 1/n formatted to two decimals, the      *)
(* factor's weight is the formatted sum of those layer weights, and the    *)
(* factor is green exactly when that sum is 1.00.                          *)
(***************************************************************************)
C6_AutoAssignSumsLayers ==
    (/\ lastCall.method = "auto_assign_layer_weightings"
     /\ childCount(items, lastCall.item) >= 1)
    => SplitAndSummed(lastCall.item)

(***************************************************************************)
(* C7.  Right after auto_assign_layer_weightings on a factor with at least *)
(* one layer, the layers' weights sum to exactly 1.00 and the factor is    *)
(* green.                                                                  *)
(***************************************************************************)
C7_AutoAssignSumsToOne ==
    (/\ lastCall.method = "auto_assign_layer_weightings"
     /\ childCount(items, lastCall.item) >= 1)
    => (/\ LayersNumeric(lastCall.item)
        /\ LayerSum(lastCall.item) = 100
        /\ items[lastCall.item].font_color = "green")

\* what a clear_layer_weightings step does to the factor it is called on
\* and to its layers
ClearedStep(f) ==
    /\ ItemData(items', f, 2) = ZeroWeight
    /\ items'[f].font_color = "red"
    /\ \A k \in 1..Len(items'[f].childItems) :
           ItemData(items', items'[f].childItems[k], 2) = ZeroWeight

\* what a clear_layer_weightings step leaves alone: the root, the set of
\* items, every item that is neither the factor nor one of its layers, and,
\* of the factor and its layers, everything but the weight and the colour
ClearKeepsStep(f) ==
    /\ rootItem' = rootItem
    /\ json_data' = json_data
    /\ DOMAIN items' = DOMAIN items
    /\ \A i \in DOMAIN items :
           IF i = f
           THEN items'[i] = [items[i] EXCEPT !.itemData[3] = ZeroWeight,
                                             !.font_color = "red"]
           ELSE IF items[i].parentItem = f
           THEN items'[i] = [items[i] EXCEPT !.itemData[3] = ZeroWeight]
           ELSE items'[i] = items[i]

(***************************************************************************)
(* C8.  clear_layer_weightings on a factor sets the weight of each of its  *)
(* layers and the weight of the factor to "0.00", shows the factor red,    *)
(* and changes nothing else: no other item, no name, no other column, no   *)
(* parent or child list.                                                   *)
(***************************************************************************)
C8_ClearAll ==
    [][(lastCall'.method = "clear_layer_weightings")
       => (ClearedStep(lastCall'.item) /\ ClearKeepsStep(lastCall'.item))]_vars

\* a factor with two layers has just been cleared (all three weights read
\* "0.00", the factor is red) while another factor of the tree is still
\* green with the weight "1.00" and a layer that holds a weight other than "0.00"
C8_Cleared ==
    /\ lastCall.method = "clear_layer_weightings"
    /\ childCount(items, lastCall.item) = 2
    /\ Weight(lastCall.item) = ZeroWeight
    /\ items[lastCall.item].font_color = "red"
    /\ \A k \in 1..2 : Weight(LayersOf(lastCall.item)[k]) = ZeroWeight
    /\ \E g \in ItemsOf("factor") :
           /\ g # lastCall.item
           /\ items[g].font_color = "green"
           /\ Weight(g) = OneWeight
           /\ childCount(items, g) >= 1
           /\ Weight(LayersOf(g)[1]) # ZeroWeight

(***************************************************************************)
(* C9.  Right after a load that returns, a factor whose n >= 1 layers came *)
(* without a "weighting" holds 1/n formatted to two decimals in each       *)
(* layer, its weight is the formatted sum of those layer weights, and it   *)
(* is green exactly when that sum is 1.00 (three layers: 0.33 each, 0.99,  *)
(* not green).                                                             *)
(***************************************************************************)
C9_LoadSumsLayers ==
    (lastCall.method = "loadJsonData" /\ lastCall.result = "returned")
    => \A f \in ItemsOf("factor") :
           (/\ childCount(items, f) >= 1
            /\ \A k \in 1..Len(LayersOf(f)) :
                   ItemData(items, LayersOf(f)[k], 3) = EmptyStr)
           => SplitAndSummed(f)

\* the sum, in hundredths, of the weightings the document gave a factor's layers
SuppliedSum(f) ==
    LET upto[k \in 0..Len(LayersOf(f))] ==
          IF k = 0 THEN 0
          ELSE upto[k - 1] + ParseFloat(ItemData(items, LayersOf(f)[k], 3))
    IN  upto[Len(LayersOf(f))]

(***************************************************************************)
(* C10.  Right after a load that returns, a layer the document gave a      *)
(* "weighting" holds that weighting as its weight, and the weight of a     *)
(* factor whose layers were all given one is the sum of those weightings.  *)
(***************************************************************************)
C10_LoadUsesSuppliedWeights ==
    (lastCall.method = "loadJsonData" /\ lastCall.result = "returned")
    => \A f \in ItemsOf("factor") :
           (/\ childCount(items, f) >= 1
            /\ \A k \in 1..Len(LayersOf(f)) :
                   IsNumber(ItemData(items, LayersOf(f)[k], 3)))
           => /\ \A k \in 1..Len(LayersOf(f)) :
                     Weight(LayersOf(f)[k]) = ItemData(items, LayersOf(f)[k], 3)
              /\ ParseFloat(Weight(f)) = SuppliedSum(f)

\* whether a document that to_json returned has the dimensions, factors and
\* layers of the document given, in its order, with its names (those of
\* dimensions compared in lower case) and, layer by layer, its keys and values
RoundTrips(given, returned) ==
    LET dims == Get(given, "dimensions", <<>>)
    IN  /\ Len(returned.dimensions) = Len(dims)
        /\ \A d \in 1..Len(dims) :
             LET facts == Get(dims[d], "factors", <<>>)
                 dimension == returned.dimensions[d]
             IN  /\ StrLower(dimension.name) = StrLower(dims[d].name)
                 /\ Len(dimension.factors) = Len(facts)
                 /\ \A f \in 1..Len(facts) :
                      LET lays == Get(facts[f], "layers", <<>>)
                          factor == dimension.factors[f]
                      IN  /\ factor.name = facts[f].name
                          /\ Len(factor.layers) = Len(lays)
                          /\ \A l \in 1..Len(lays) :
                               /\ DOMAIN factor.layers[l] = DOMAIN lays[l]
                               /\ \A key \in DOMAIN lays[l] :
                                    factor.layers[l][key] = lays[l][key]

\* whether the tree is the one loadJsonData built from json_data, untouched
AsLoaded ==
    \E d \in 1..Len(CodecDocList) :
        /\ json_data = CodecDocList[d]
        /\ ~LoadedCodec[d].raised
        /\ items = LoadedCodec[d].items

(***************************************************************************)
(* C11.  Round-trip: to_json of a tree just loaded from a document returns *)
(* a document with the same dimensions, factors and layers in the same     *)
(* order, the same names (dimension names up to case) and, for every       *)
(* layer, exactly the keys of the source layer with unchanged values.      *)
(***************************************************************************)
C11_RoundTrip ==
    (lastCall.method = "to_json" /\ AsLoaded)
    => (/\ lastCall.result = "returned"
        /\ exported.written
        /\ RoundTrips(json_data, exported.document))

\* the two layer shapes: {"layer": name, attributes} and {name: {attributes}}
IsFlatShape(layer) == "layer" \in DOMAIN layer

IsKeyedShape(layer) == ~IsFlatShape(layer) /\ Cardinality(DOMAIN layer) = 1

\* the text of the keys that name a layer of the second shape
KeyText == [L1 |-> LayerName(1)]

\* the name and the attributes a layer object gives its node
ShapeName(layer) ==
    IF IsFlatShape(layer) THEN layer["layer"]
    ELSE KeyText[CHOOSE key \in DOMAIN layer : TRUE]

ShapeAttributes(layer) ==
    IF IsFlatShape(layer)
    THEN [key \in DOMAIN layer \ {"layer"} |-> layer[key]]
    ELSE layer[CHOOSE key \in DOMAIN layer : TRUE]

\* whether every dimension and factor of a document has a name and every
\* layer has one of the two shapes
KnownShapes(given) ==
    \A d \in 1..Len(Get(given, "dimensions", <<>>)) :
        LET dimension == given.dimensions[d]
        IN  /\ "name" \in DOMAIN dimension
            /\ \A f \in 1..Len(Get(dimension, "factors", <<>>)) :
                 LET factor == dimension.factors[f]
                 IN  /\ "name" \in DOMAIN factor
                     /\ \A l \in 1..Len(Get(factor, "layers", <<>>)) :
                          IsFlatShape(factor.layers[l]) \/ IsKeyedShape(factor.layers[l])

\* whether the tree holds, for every layer object of a document, a layer
\* item in its place with the name and the attributes of the object
LayersDecoded(given) ==
    \A d \in 1..Len(Get(given, "dimensions", <<>>)) :
      \A f \in 1..Len(Get(given.dimensions[d], "factors", <<>>)) :
        LET layers == Get(given.dimensions[d].factors[f], "layers", <<>>)
            factor_item == items[items[rootItem].childItems[d]].childItems[f]
        IN  /\ childCount(items, factor_item) = Len(layers)
            /\ \A l \in 1..Len(layers) :
                 LET layer_item == items[factor_item].childItems[l]
                     attributes == ShapeAttributes(layers[l])
                 IN  /\ items[layer_item].role = "layer"
                     /\ ItemData(items, layer_item, 0) = ShapeName(layers[l])
                     /\ \A key \in DOMAIN attributes :
                          /\ key \in DOMAIN items[layer_item].itemData[5]
                          /\ items[layer_item].itemData[5][key] = attributes[key]

(***************************************************************************)
(* C12.  Load accepts both layer shapes: right after loadJsonData of a     *)
(* document whose layers are flat objects {"layer": name, attributes} or   *)
(* single-key objects {name: {attributes}}, the call has returned and the  *)
(* tree holds a layer item with that name and those attributes for each.   *)
(***************************************************************************)
C12_BothLayerShapes ==
    (lastCall.method = "loadJsonData" /\ KnownShapes(json_data))
    => (lastCall.result = "returned" /\ LayersDecoded(json_data))

\* the row of an item in its parent's child list
RowOf(heap, item) ==
    CHOOSE k \in 1..Len(heap[heap[item].parentItem].childItems) :
        heap[heap[item].parentItem].childItems[k] = item

\* a sequence without its k-th element
WithoutRow(list, k) == SubSeq(list, 1, k - 1) \o SubSeq(list, k + 1, Len(list))

\* a document without the l-th layer of the f-th factor of its d-th dimension
WithoutLayer(given, d, f, l) ==
    [given EXCEPT !.dimensions[d].factors[f].layers = WithoutRow(@, l)]

(***************************************************************************)
(* C13.  After remove_item on a layer, to_json returns a document in       *)
(* which the layers of that layer's factor are its former siblings in      *)
(* their order, without the layer, and everything else is as to_json gave  *)
(* it before the removal.                                                  *)
(***************************************************************************)
C13_RemoveThenExport ==
    [][(lastCall'.method = "remove_item" /\ items[lastCall'.item].role = "layer")
       => LET layer_item == lastCall'.item
              factor_item == items[layer_item].parentItem
              dimension_item == items[factor_item].parentItem
              before == to_json(items, rootItem)
              after == to_json(items', rootItem')
          IN  /\ ~after.raised
              /\ after.document =
                     WithoutLayer(before.document, RowOf(items, dimension_item),
                                  RowOf(items, factor_item), RowOf(items, layer_item))]_vars

\* I1: the root has no parent, and every item under it is held by exactly
\* one child list, once, and that list is the one of its parentItem
TreeInvariant ==
    /\ items[rootItem].parentItem = None
    /\ \A i \in Subtree(items, rootItem) \ {rootItem} :
         /\ {p \in DOMAIN items : \E k \in 1..childCount(items, p) :
                                      items[p].childItems[k] = i}
              = {items[i].parentItem}
         /\ Cardinality({k \in 1..childCount(items, items[i].parentItem) :
                            items[items[i].parentItem].childItems[k] = i}) = 1

\* the item a remove_item or removeRow call that returned has removed; None
\* for any other call
RemovedItem(call) ==
    IF call.method = "remove_item" THEN call.item
    ELSE IF call.method = "removeRow" /\ call.result = "returned"
    THEN LET list == items[call.item].childItems
         IN  list[IF call.column < 0 THEN Len(list) + call.column + 1
                  ELSE call.column + 1]
    ELSE None

\* the data and role of the items under the root, parents before children
Reachable(heap, root) ==
    LET order == Preorder(heap, root)
    IN  [k \in 1..Len(order) |->
            [itemData |-> heap[order[k]].itemData, role |-> heap[order[k]].role]] \o <<>>

\* what a step that removes an item leaves under the root: the items that
\* were there and are neither the removed item nor under it, in their order
RemovedStep ==
    LET removed == RemovedItem(lastCall')
        gone == Subtree(items, removed)
        order == Preorder(items, rootItem)
        kept == SelectSeq(order, LAMBDA i : i \notin gone)
    IN  /\ Len(kept) = Len(order) - Cardinality(gone)
        /\ Reachable(items', rootItem')
             = [k \in 1..Len(kept) |->
                   [itemData |-> items[kept[k]].itemData, role |-> items[kept[k]].role]]

(***************************************************************************)
(* C14.  Tree structure invariant I1: after any load, add_dimension,       *)
(* add_factor, add_layer, remove_item and removeRow, every item under the  *)
(* root has as parentItem the one item whose child list holds it, and is   *)
(* held there exactly once; and an item that was removed is no longer      *)
(* under the root, nor is any item of its subtree, while every other item  *)
(* still is.                                                               *)
(***************************************************************************)
C14_TreeStructure ==
    /\ TreeInvariant
    /\ [][/\ TreeInvariant'
          /\ (RemovedItem(lastCall') # None) => RemovedStep]_vars

\* the factor F1 of the two-dimension document has been removed with its two
\* layers: the factor G2, its layer and both dimensions are still in the tree
C14_FactorRemoved ==
    /\ lastCall.method \in {"remove_item", "removeRow"}
    /\ lastCall.result = "returned"
    /\ json_data = TwoDimensionDoc
    /\ Cardinality(DOMAIN items) = 5
    /\ Cardinality(ItemsOf("dimension")) = 2
    /\ \A f \in ItemsOf("factor") : ItemData(items, f, 0) = NameG
    /\ Cardinality(ItemsOf("layer")) = 1

\* an editor is open and what was typed in it has not been committed
Uncommitted(e) == e # NoEditor /\ ~e.committed

(***************************************************************************)
(* C15.  Revert on cancel: the step that opens a cell editor, every step   *)
(* taken while what was typed is not committed, and the step that closes   *)
(* the editor uncommitted (closeEditor with the revert hint that Escape    *)
(* gives, or with another hint) leave every item of the model as it was:   *)
(* after the cancel the model is what it was before the edit started.      *)
(***************************************************************************)
C15_RevertOnCancel ==
    [][(Uncommitted(editor') \/ (Uncommitted(editor) /\ editor' = NoEditor))
       => (items' = items /\ rootItem' = rootItem)]_vars

\* an editor has been closed with the revert hint before anything was
\* committed: closeEditor has written the remembered value back (the last
\* model call is that setData, and the cell holds the value it wrote), the
\* fields of the view are reset and no editor is open
C15_Cancelled ==
    /\ lastCall.method = "setData"
    /\ lastCall.result = "True"
    /\ nEdits = 0
    /\ editor = NoEditor
    /\ current_editing_index = NoIndex
    /\ original_value = NoValue
    /\ ItemData(items, lastCall.item, lastCall.column) = lastCall.value

\* the call of the shapefile writer the downloader is to make
WriterCallOf(downloader, call) ==
    /\ call.fileName = downloader.output_path
    /\ call.fileEncoding = "UTF-8"
    /\ call.driverName = "ESRI Shapefile"

(***************************************************************************)
(* C17.  After send_query, if the reply reported no error then the reply   *)
(* was processed (process_data ran to its end) and the shapefile writer    *)
(* was invoked exactly once, with the downloader's output path, "UTF-8"    *)
(* and "ESRI Shapefile"; if the reply reported an error then it was not    *)
(* processed and the writer was not invoked.                               *)
(***************************************************************************)
C17_WriterInvokedOnce ==
    sent.called =>
        IF sent.reply.error = "NoError"
        THEN /\ sent.processed
             /\ sent.raised = ""
             /\ Len(sent.calls) = 1
             /\ WriterCallOf(fetcher, sent.calls[1])
        ELSE /\ ~sent.processed
             /\ sent.calls = <<>>

\* the item at row f of the item at row d of the root (rows from 1)
FactorAt(heap, root, d, f) == heap[heap[root].childItems[d]].childItems[f]

\* the sum, in hundredths, of the weights the layers of a factor hold in a
\* heap
HeapLayerSum(heap, f) ==
    LET layers == heap[f].childItems
        upto[k \in 0..Len(layers)] ==
          IF k = 0 THEN 0
          ELSE upto[k - 1] + ParseFloat(ItemData(heap, layers[k], 2))
    IN  upto[Len(layers)]

\* whether a step is add_layer, or remove_item on a layer
LayerAddedOrRemoved ==
    \/ lastCall'.method = "add_layer"
    \/ lastCall'.method = "remove_item" /\ items[lastCall'.item].role = "layer"

\* the factor a LayerAddedOrRemoved step gave a layer to or took one from,
\* as it is after the step
OwningFactor ==
    LET was == IF lastCall'.method = "add_layer" THEN lastCall'.item
               ELSE items[lastCall'.item].parentItem
    IN  FactorAt(items', rootItem', RowOf(items, items[was].parentItem),
                 RowOf(items, was))

(***************************************************************************)
(* C18.  After add_layer on a factor, and after remove_item on a layer,    *)
(* the weight stored for the owning factor (each of the layers it now has  *)
(* holding a number) equals the sum of the weights of those layers, and    *)
(* the factor is green exactly when that sum is 1.00.                      *)
(***************************************************************************)
C18_FactorWeightRecomputed ==
    [][(/\ LayerAddedOrRemoved
        /\ \A k \in 1..childCount(items', OwningFactor) :
              IsNumber(ItemData(items', items'[OwningFactor].childItems[k], 2)))
       => /\ IsNumber(ItemData(items', OwningFactor, 2))
          /\ ParseFloat(ItemData(items', OwningFactor, 2))
               = HeapLayerSum(items', OwningFactor)
          /\ (items'[OwningFactor].font_color = "green")
               <=> (HeapLayerSum(items', OwningFactor) = 100)]_vars

DragDropFlags == {"ItemIsDragEnabled", "ItemIsDropEnabled"}

(***************************************************************************)
(* C19.  For every dimension item (a child of the model's root item) the   *)
(* flags of column 0 include drag-enabled and drop-enabled, and for every  *)
(* factor and layer item they include neither.                             *)
(***************************************************************************)
C19_DimensionsDragDrop ==
    /\ \A d \in ItemsOf("dimension") :
          /\ items[d].parentItem = rootItem
          /\ DragDropFlags \subseteq flags(items, d, 0)
    /\ \A i \in ItemsOf("factor") \cup ItemsOf("layer") :
          DragDropFlags \cap flags(items, i, 0) = {}

\* how often an item is in a list
Occurrences(list, i) == Cardinality({k \in 1..Len(list) : list[k] = i})

(***************************************************************************)
(* C20.  When process_leaves has run, the list of leaves it collected      *)
(* holds every item under the root that has no children exactly once, and  *)
(* holds no item that has children (nor anything that is not an item under *)
(* the root).                                                              *)
(***************************************************************************)
C20_AllLeavesOnce ==
    lastCall.method = "process_leaves" =>
        /\ \A i \in Shown :
              Occurrences(leaf_nodes, i)
                = IF childCount(items, i) = 0 THEN 1 ELSE 0
        /\ \A k \in 1..Len(leaf_nodes) : leaf_nodes[k] \in Shown

\* how many layers each factor of each dimension of the tree has
TreeShape(heap, root) ==
    [d \in 1..childCount(heap, root) |->
        [f \in 1..childCount(heap, heap[root].childItems[d]) |->
            childCount(heap, FactorAt(heap, root, d, f))] \o <<>>] \o <<>>

\* how many layer entries each factor entry of each dimension entry of a
\* document has
DocumentShape(document) ==
    [d \in 1..Len(document.dimensions) |->
        [f \in 1..Len(document.dimensions[d].factors) |->
            Len(document.dimensions[d].factors[f].layers)] \o <<>>] \o <<>>

(***************************************************************************)
(* C21.  to_json is total: whenever it is called on a tree that a load     *)
(* that returned, add_layer and remove_item have made, it returns, and the *)
(* document it returns has one entry for each dimension, factor and layer  *)
(* of the tree.                                                            *)
(***************************************************************************)
C21_ToJsonTotal ==
    lastCall.method = "to_json" =>
        /\ lastCall.result = "returned"
        /\ exported.written
        /\ DocumentShape(exported.document) = TreeShape(items, rootItem)

(***************************************************************************)
(* C22.  An Escape key press while no cell editor is open changes no item  *)
(* of the model, whatever edit attempts, commits, closes, clears and       *)
(* auto-assignments came before it: a value the view remembered from an    *)
(* earlier edit attempt is not written over the value the cell holds now.  *)
(***************************************************************************)
C22_EscapeWithoutEditor ==
    [][(editor = NoEditor /\ KeyPressEscape) => items' = items]_vars

\* the leaves in the processing state: started by process_each_leaf (their
\* timer is pending), or with the animated widget set
Processing ==
    {timers[k].node_index : k \in 1..Len(timers)} \cup index_widgets

(***************************************************************************)
(* C23.  Leaf processing is sequential: however Prepare clicks and timer   *)
(* expiries interleave, at most one leaf is in the processing state, so    *)
(* finish_processing has run for a leaf before process_each_leaf starts    *)
(* another.                                                                *)
(***************************************************************************)
C23_SequentialProcessing == Cardinality(Processing) <= 1

====
